---- MODULE Spec2Model ----
(***************************************************************************)
(* A model of word_freqs.py (reddit-analysis): the word accumulator        *)
(* popular_words, parse_text with its common-word and anti-spam filters,   *)
(* the traversals process_subreddit / process_redditor /                   *)
(* process_submission, and the output loop of main.                        *)
(*                                                                         *)
(* A character is a one-character string; a text, a token and a word are   *)
(* sequences of characters.  A float option (max_threshold) is the pair    *)
(* <<numerator, denominator>> of the decimal it was parsed from, and       *)
(* count / total <= max_threshold is compared exactly.                     *)
(***************************************************************************)
EXTENDS Integers, Sequences, FiniteSets, TLC

VARIABLES
  options,        \* the parsed command line: max_threshold, count_word_freqs, is_subreddit
  pc,             \* where the run is
  popular_words,  \* the accumulator: word -> count, over its keys
  before,         \* popular_words as the last parse_text call found it
  text,           \* the argument of the last parse_text call
  total,          \* parse_text's local total when that call returned
  used,           \* tokens passed to parse_text so far, counted where that is bounded
  seen,           \* the items the listing has yielded, in order
  ingested,       \* the arguments of all parse_text calls of the run, in order
  stderr,         \* the diagnostic stream
  out_file,       \* what was written to the output file
  blocks,         \* the text blocks of the ordering specification
  pending         \* the indices of blocks not yet ingested

vars == <<options, pc, popular_words, before, text, total, used,
          seen, ingested, stderr, out_file, blocks, pending>>

(***************************************************************************)
(* Bounds of the model.                                                    *)
(***************************************************************************)
\* tokens passed to parse_text in one behaviour of the text-level specification
MaxTokens == 5
\* items one listing (get_top / get_overview) yields
MaxItems == 3
\* text blocks of one behaviour of the ordering specification
MaxBlocks == 3

(***************************************************************************)
(* Characters and Python's str methods.                                    *)
(***************************************************************************)
\* the characters in code order: tab, newline, then codes 32 .. 126 (without
\* the grave accent, which a TLA+ string cannot hold)
Ascii ==
  << "\t", "\n", " ", "!", "\"", "#", "$", "%", "&", "'", "(", ")", "*", "+",
     ",", "-", ".", "/", "0", "1", "2", "3", "4", "5", "6", "7", "8", "9", ":",
     ";", "<", "=", ">", "?", "@", "A", "B", "C", "D", "E", "F", "G", "H", "I",
     "J", "K", "L", "M", "N", "O", "P", "Q", "R", "S", "T", "U", "V", "W", "X",
     "Y", "Z", "[", "\\", "]", "^", "_", "a", "b", "c", "d", "e", "f", "g",
     "h", "i", "j", "k", "l", "m", "n", "o", "p", "q", "r", "s", "t", "u", "v",
     "w", "x", "y", "z", "{", "|", "}", "~" >>

Chars == {Ascii[i] : i \in DOMAIN Ascii}

\* ord(c), up to the offset of the table
Ord == [c \in Chars |-> CHOOSE i \in DOMAIN Ascii : Ascii[i] = c]

Whitespace == {" ", "\t", "\n"}

Digits == {"0", "1", "2", "3", "4", "5", "6", "7", "8", "9"}

UpperCase == {c \in Chars : Ord[c] >= Ord["A"] /\ Ord[c] <= Ord["Z"]}

\* string.punctuation (without the grave accent)
string_punctuation ==
  { "!", "\"", "#", "$", "%", "&", "'", "(", ")", "*", "+", ",", "-", ".",
    "/", ":", ";", "<", "=", ">", "?", "@", "[", "\\", "]", "^", "_",
    "{", "|", "}", "~" }

\* punctuation to strip from words
PUNCTUATION == {" "} \cup string_punctuation \cup {"\n"}

\* str.lower() of one character
LowerChar == [c \in Chars |->
                IF c \in UpperCase THEN Ascii[Ord[c] + (Ord["a"] - Ord["A"])]
                ELSE c]

\* s.lower()
lower(s) == [i \in DOMAIN s |-> LowerChar[s[i]]]

RECURSIVE lstrip(_, _)
lstrip(s, chars) ==
  IF s # <<>> /\ Head(s) \in chars THEN lstrip(Tail(s), chars) ELSE s

RECURSIVE rstrip(_, _)
rstrip(s, chars) ==
  IF s # <<>> /\ s[Len(s)] \in chars
  THEN rstrip(SubSeq(s, 1, Len(s) - 1), chars)
  ELSE s

\* s.strip(chars)
strip(s, chars) == rstrip(lstrip(s, chars), chars)

\* s.split(): the maximal runs of non-whitespace characters, in order
RECURSIVE split_from(_, _, _)
split_from(s, cur, out) ==
  IF s = <<>>
  THEN IF cur = <<>> THEN out ELSE Append(out, cur)
  ELSE IF Head(s) \in Whitespace
       THEN split_from(Tail(s), <<>>, IF cur = <<>> THEN out ELSE Append(out, cur))
       ELSE split_from(Tail(s), Append(cur, Head(s)), out)

split(s) == split_from(s, <<>>, <<>>)

\* needle in s
Contains(s, needle) ==
  \E i \in 0..(Len(s) - Len(needle)) : SubSeq(s, i + 1, i + Len(needle)) = needle

\* s1 < s2 in the order sorted() puts strings in
RECURSIVE str_less(_, _)
str_less(s1, s2) ==
  IF s2 = <<>> THEN FALSE
  ELSE IF s1 = <<>> THEN TRUE
  ELSE IF Head(s1) # Head(s2) THEN Ord[Head(s1)] < Ord[Head(s2)]
  ELSE str_less(Tail(s1), Tail(s2))

\* sorted(S) of a set of strings
RECURSIVE sorted(_)
sorted(S) ==
  IF S = {} THEN <<>>
  ELSE LET m == CHOOSE x \in S : \A y \in S \ {x} : str_less(x, y)
       IN  <<m>> \o sorted(S \ {m})

\* int(s) does not raise: optional blanks around an optional sign and digits
int_ok(s) ==
  LET t == strip(s, Whitespace)
      d == IF t # <<>> /\ Head(t) \in {"+", "-"} THEN Tail(t) ELSE t
  IN  d # <<>> /\ \A i \in DOMAIN d : d[i] \in Digits

RECURSIVE concat(_)
concat(ss) == IF ss = <<>> THEN <<>> ELSE Head(ss) \o concat(Tail(ss))

\* s * n
RECURSIVE repeat(_, _)
repeat(s, n) == IF n <= 0 THEN <<>> ELSE s \o repeat(s, n - 1)

(***************************************************************************)
(* The words the model's texts are made of.                                *)
(***************************************************************************)
w_test == <<"t", "e", "s", "t">>

(***************************************************************************)
(* common_words, loaded once from common-words.csv and the dictionary.     *)
(***************************************************************************)
\* the entries of common-words.csv
common_words_file == { <<"T", "h", "e">>, <<" ", "a">> }

\* the lines of /usr/share/dict/words
dictionary_file == { <<"t", "h", "e", "\n">>, <<"A", "\n">> }

common_words ==
  {lower(strip(w, PUNCTUATION)) : w \in common_words_file}
    \cup {lower(strip(w, PUNCTUATION)) : w \in dictionary_file}

\* put words here that you don't want to include in the word cloud
EXCLUDED_WORDS ==
  << <<"/">>, <<"-", "-">>, <<".", ".", ".">>,
     <<"d", "e", "l", "e", "t", "e", "d">>, <<")", "x">> >>

(***************************************************************************)
(* parse_text                                                              *)
(***************************************************************************)
\* popular_words[word] of a defaultdict(int), read without inserting
Get(acc, w) == IF w \in DOMAIN acc THEN acc[w] ELSE 0

\* word = word.strip(PUNCTUATION).lower()
normalize(word) == lower(strip(word, PUNCTUATION))

\* a total that leaves out the tokens that normalize to the empty string
total_nonempty(tokens) ==
  Cardinality({i \in DOMAIN tokens : normalize(tokens[i]) # <<>>})

\* the value of total after the first loop over the tokens
total_of(tokens) == Len(tokens)

\* a test that forgets the common words
counted_any(word) == word # <<>>

\* if word and word not in common_words
counted(word) == word # <<>> /\ word \notin common_words

\* a text_words that notes a word once, however often it occurs
text_words_once(tokens) ==
  LET words == [i \in DOMAIN tokens |-> normalize(tokens[i])]
      keys  == {words[i] : i \in {j \in DOMAIN words : counted(words[j])}}
  IN  [w \in keys |-> 1]

\* text_words after the first loop
text_words_of(tokens) ==
  LET words == [i \in DOMAIN tokens |-> normalize(tokens[i])]
      keys  == {words[i] : i \in {j \in DOMAIN words : counted(words[j])}}
  IN  [w \in keys |-> Cardinality({i \in DOMAIN words : words[i] = w})]

\* the comparison with < for <=
accept_strict(count, tot, max_threshold) ==
  count * max_threshold[2] < max_threshold[1] * tot

\* if count / total <= options.max_threshold
accept(count, tot, max_threshold) ==
  count * max_threshold[2] <= max_threshold[1] * tot

\* an increment that ignores --only_one
increment_count(count, count_word_freqs) == count

\* what one accepted word adds to popular_words
increment(count, count_word_freqs) == IF count_word_freqs THEN count ELSE 1

\* a parse_text that lets a word through when the accumulator already has it
parse_text_sticky(acc, opts, txt) ==
  LET tokens     == split(txt)
      tot        == total_of(tokens)
      text_words == text_words_of(tokens)
      accepted   == {w \in DOMAIN text_words :
                       \/ accept(text_words[w], tot, opts.max_threshold)
                       \/ w \in DOMAIN acc}
  IN  [w \in DOMAIN acc \cup accepted |->
         Get(acc, w)
           + IF w \in accepted
             THEN increment(text_words[w], opts.count_word_freqs)
             ELSE 0]

\* popular_words after parse_text(txt) has run on the accumulator acc
parse_text(acc, opts, txt) ==
  LET tokens     == split(txt)
      tot        == total_of(tokens)
      text_words == text_words_of(tokens)
      accepted   == {w \in DOMAIN text_words :
                       accept(text_words[w], tot, opts.max_threshold)}
  IN  [w \in DOMAIN acc \cup accepted |->
         Get(acc, w)
           + IF w \in accepted
             THEN increment(text_words[w], opts.count_word_freqs)
             ELSE 0]

\* defaultdict(int)
EmptyAcc == [w \in {} |-> 0]

\* the output file before main opens it
NoFile == [exists |-> FALSE, content |-> <<>>]

(***************************************************************************)
(* The texts of the text-level specification: sequences of pieces, each a  *)
(* token with the whitespace around it, and the two blocks of the          *)
(* documented scenario.                                                    *)
(***************************************************************************)
Pieces ==
  { <<"t", "e", "s", "t", " ">>,
    <<"s", "p", "a", "m", "\n">>,
    <<"T", "e", "s", "t", ".", " ">>,
    <<"T", "h", "e", ",", " ">>,
    <<" ", "-", "-", "\t">> }

\* "test test the a"
Example1 ==
  <<"t", "e", "s", "t", " ", "t", "e", "s", "t", " ", "t", "h", "e", " ", "a">>

\* "test"
Example2 == <<"t", "e", "s", "t">>

SeqsUpTo(S, n) == UNION {[1..k -> S] : k \in 0..n}

\* -m/--maxthresh
Thresholds == { <<1, 2>>, <<49, 100>>, <<3, 4>> }

(***************************************************************************)
(* The text-level specification: parse_text called on text blocks, as the  *)
(* traversals and test_parse_text call it.                                 *)
(***************************************************************************)
InitParse ==
  /\ options \in [max_threshold : Thresholds, count_word_freqs : BOOLEAN,
                  is_subreddit : {TRUE}]
  /\ pc = "start"
  /\ popular_words = EmptyAcc
  /\ before = EmptyAcc
  /\ text = <<>>
  /\ total = 0
  /\ used = 0
  /\ seen = <<>>
  /\ ingested = <<>>
  /\ stderr = <<>>
  /\ out_file = NoFile
  /\ blocks = <<>>
  /\ pending = {}

\* one call parse_text(t)
CallParseText(t) ==
  /\ pc \in {"start", "called"}
  /\ used + Len(split(t)) <= MaxTokens
  /\ pc' = "called"
  /\ before' = popular_words
  /\ text' = t
  /\ total' = total_of(split(t))
  /\ popular_words' = parse_text(popular_words, options, t)
  /\ used' = used + Len(split(t))
  /\ UNCHANGED <<options, seen, ingested, stderr, out_file, blocks, pending>>

NextParse ==
  \/ \E s \in SeqsUpTo(Pieces, MaxTokens - used) : CallParseText(concat(s))
  \/ \E t \in {Example1, Example2} : CallParseText(t)

SpecParse == InitParse /\ [][NextParse]_vars

(***************************************************************************)
(* The content the listings yield.  A Submission carries its title, its    *)
(* selftext (empty for a link post), the bodies of its comment tree as     *)
(* replace_more_comments() and flatten_tree() deliver them, and            *)
(* http_error: the status of the HTTPError those two calls raise for it,   *)
(* or 0 when they succeed.  Its url is its place in the listing.           *)
(***************************************************************************)
\* "42 a/b x--y a...b undeleted (a)x 4x ham"
NoiseText ==
  <<"4", "2", " ", "a", "/", "b", " ", "x", "-", "-", "y", " ",
    "a", ".", ".", ".", "b", " ", "u", "n", "d", "e", "l", "e", "t", "e", "d", " ",
    "(", "a", ")", "x", " ", "4", "x", " ", "h", "a", "m">>

\* "42 42 4x 4x Ham, undeleted"
NoiseBody ==
  <<"4", "2", " ", "4", "2", " ", "4", "x", " ", "4", "x", " ",
    "H", "a", "m", ",", " ", "u", "n", "d", "e", "l", "e", "t", "e", "d">>

\* "Test. spam"
PlainBody == <<"T", "e", "s", "t", ".", " ", "s", "p", "a", "m">>

CommentTrees == { <<>>, <<PlainBody, NoiseBody>> }

\* the status codes of the HTTPError, 0 for none
HttpStatuses == {0, 503}

Submissions(url) ==
  { [kind |-> "Submission", url |-> url, title |-> Example1, is_self |-> self,
     selftext |-> IF self THEN NoiseText ELSE <<>>, comments |-> cs,
     http_error |-> e] :
      self \in BOOLEAN, cs \in CommentTrees, e \in HttpStatuses }

Comments(url) ==
  { [kind |-> "Comment", url |-> url, body |-> b] : b \in {PlainBody, NoiseBody} }

(***************************************************************************)
(* process_submission and the traversals                                   *)
(***************************************************************************)
\* popular_words after parse_text has run on each of texts in turn
RECURSIVE parse_all(_, _, _)
parse_all(acc, opts, texts) ==
  IF texts = <<>> THEN acc
  ELSE parse_all(parse_text(acc, opts, Head(texts)), opts, Tail(texts))

\* does process_submission raise: replace_more_comments() and
\* submission.comments are its only calls that fetch
submission_raises(s, include_comments) == include_comments /\ s.http_error # 0

\* a process_submission that parses the title before it expands the comments
submission_calls_title_first(s, include_comments) ==
  <<s.title>>
    \o (IF include_comments
        THEN (IF s.http_error # 0 THEN <<>> ELSE s.comments)
        ELSE <<>>)
    \o (IF s.is_self /\ ~(include_comments /\ s.http_error # 0)
        THEN <<s.selftext>> ELSE <<>>)

\* a process_submission that always walks the comment tree
submission_calls_with_tree(s, include_comments) ==
  IF s.http_error # 0 THEN <<>>
  ELSE s.comments \o <<s.title>> \o (IF s.is_self THEN <<s.selftext>> ELSE <<>>)

\* the arguments of the parse_text calls process_submission makes, in order,
\* until it returns or raises
submission_calls(s, include_comments) ==
  IF submission_raises(s, include_comments) THEN <<>>
  ELSE (IF include_comments THEN s.comments ELSE <<>>)
         \o <<s.title>>
         \o (IF s.is_self THEN <<s.selftext>> ELSE <<>>)

\* what with_status writes for the item of index i (from 0)
with_status(i) == << <<".">> >> \o (IF i % 100 = 99 THEN << <<"\n">> >> ELSE <<>>)

\* "Skipping submission {url} due to HTTP status {code} error. Continuing..."
skip_message(s) == <<"Skipping submission", s.url, s.http_error>>

\* the traceback of an exception nothing catches
traceback(site) == <<"Traceback", site, "HTTPError">>

(***************************************************************************)
(* The output loop of main                                                 *)
(***************************************************************************)
\* a noise floor that lets a count of 2 through
above_floor_2(count) == count >= 2

\* if popular_words[word] > 2
above_floor(count) == count > 2

\* an exclusion that matches whole words only
excluded_exact(word) == \E i \in DOMAIN EXCLUDED_WORDS : EXCLUDED_WORDS[i] = word

\* for ew in EXCLUDED_WORDS: if ew in word
excluded(word) == \E i \in DOMAIN EXCLUDED_WORDS : Contains(word, EXCLUDED_WORDS[i])

\* pri when the body of the if is done
pri(word) == ~excluded(word) /\ ~int_ok(word)

\* txt = ((word + " ") * count).encode("UTF-8").strip(" ") + " "
txt_of(word, count) == strip(repeat(word \o <<" ">>, count), {" "}) \o <<" ">>

RECURSIVE write_all(_, _)
write_all(acc, words) ==
  IF words = <<>> THEN <<>>
  ELSE (IF above_floor(acc[Head(words)]) /\ pri(Head(words))
        THEN txt_of(Head(words), acc[Head(words)])
        ELSE <<>>)
       \o write_all(acc, Tail(words))

\* everything the loop writes to out_file
output_of(acc) == write_all(acc, sorted(DOMAIN acc))

(***************************************************************************)
(* The run: main traverses a subreddit or a redditor, then writes the      *)
(* output file.                                                            *)
(***************************************************************************)
Init ==
  /\ options \in [max_threshold : Thresholds, count_word_freqs : BOOLEAN,
                  is_subreddit : BOOLEAN]
  /\ pc = "traverse"
  /\ popular_words = EmptyAcc
  /\ before = EmptyAcc
  /\ text = <<>>
  /\ total = 0
  /\ used = 0
  /\ seen = <<>>
  /\ ingested = <<>>
  /\ stderr = <<>>
  /\ out_file = NoFile
  /\ blocks = <<>>
  /\ pending = {}

\* before, text and total once parse_text has run on each of calls in turn,
\* given as a record; they stay as they are when there is no call
after_calls(acc, opts, calls, old) ==
  IF calls = <<>> THEN old
  ELSE [before |-> parse_all(acc, opts, SubSeq(calls, 1, Len(calls) - 1)),
        text   |-> calls[Len(calls)],
        total  |-> total_of(split(calls[Len(calls)]))]

LastCall == [before |-> before, text |-> text, total |-> total]

\* one turn of the loop of process_subreddit with no handler around
\* process_submission
SubredditItemUncaught(s) ==
  /\ pc = "traverse"
  /\ options.is_subreddit
  /\ Len(seen) < MaxItems
  /\ seen' = Append(seen, s)
  /\ ingested' = ingested \o submission_calls(s, TRUE)
  /\ popular_words' = parse_all(popular_words, options, submission_calls(s, TRUE))
  /\ IF submission_raises(s, TRUE)
     THEN /\ stderr' = stderr \o with_status(Len(seen))
                         \o <<traceback("process_submission")>>
          /\ pc' = "crashed"
     ELSE /\ stderr' = stderr \o with_status(Len(seen))
          /\ pc' = pc
  /\ LET last == after_calls(popular_words, options, submission_calls(s, TRUE), LastCall)
     IN  before' = last.before /\ text' = last.text /\ total' = last.total
  /\ UNCHANGED <<options, used, out_file, blocks, pending>>

\* one turn of the loop of process_subreddit: the listing yields s,
\* process_submission(s) runs, an HTTPError it raises is reported and skipped
SubredditItem(s) ==
  /\ pc = "traverse"
  /\ options.is_subreddit
  /\ Len(seen) < MaxItems
  /\ seen' = Append(seen, s)
  /\ ingested' = ingested \o submission_calls(s, TRUE)
  /\ popular_words' = parse_all(popular_words, options, submission_calls(s, TRUE))
  /\ stderr' = stderr \o with_status(Len(seen))
                 \o (IF submission_raises(s, TRUE) THEN <<skip_message(s)>> ELSE <<>>)
  /\ LET last == after_calls(popular_words, options, submission_calls(s, TRUE), LastCall)
     IN  before' = last.before /\ text' = last.text /\ total' = last.total
  /\ UNCHANGED <<options, pc, used, out_file, blocks, pending>>

\* the texts one turn of the loop of process_redditor passes to parse_text
redditor_calls(entry) ==
  IF entry.kind = "Comment" THEN <<entry.body>>
  ELSE submission_calls(entry, FALSE)

\* one turn of the loop of process_redditor: the overview yields entry
RedditorItem(entry) ==
  /\ pc = "traverse"
  /\ ~options.is_subreddit
  /\ Len(seen) < MaxItems
  /\ seen' = Append(seen, entry)
  /\ ingested' = ingested \o redditor_calls(entry)
  /\ popular_words' = parse_all(popular_words, options, redditor_calls(entry))
  /\ stderr' = stderr \o with_status(Len(seen))
  /\ LET last == after_calls(popular_words, options, redditor_calls(entry), LastCall)
     IN  before' = last.before /\ text' = last.text /\ total' = last.total
  /\ UNCHANGED <<options, pc, used, out_file, blocks, pending>>

\* the listing (get_top or get_overview) raises an HTTPError while the loop
\* asks it for the next item: no handler is around the loop, main ends
ListingError ==
  /\ pc = "traverse"
  /\ stderr' = Append(stderr,
                      traceback(IF options.is_subreddit THEN "get_top" ELSE "get_overview"))
  /\ pc' = "crashed"
  /\ UNCHANGED <<options, popular_words, before, text, total, used, seen,
                 ingested, out_file, blocks, pending>>

\* the listing is exhausted: main opens the output file and writes the words
\* that pass the filters
Output ==
  /\ pc = "traverse"
  /\ out_file' = [exists |-> TRUE, content |-> output_of(popular_words)]
  /\ pc' = "done"
  /\ UNCHANGED <<options, popular_words, before, text, total, used, seen,
                 ingested, stderr, blocks, pending>>

Next ==
  \/ \E s \in Submissions(Len(seen) + 1) : SubredditItem(s)
  \/ \E e \in Submissions(Len(seen) + 1) \cup Comments(Len(seen) + 1) : RedditorItem(e)
  \/ ListingError
  \/ Output

Spec == Init /\ [][Next]_vars

(***************************************************************************)
(* The ordering specification: a fixed sequence of text blocks, ingested   *)
(* by parse_text in any order.                                             *)
(***************************************************************************)
OrderTexts == {Example1, Example2, PlainBody, NoiseBody}

InitOrder ==
  /\ options \in [max_threshold : Thresholds, count_word_freqs : BOOLEAN,
                  is_subreddit : {TRUE}]
  /\ pc = "order"
  /\ popular_words = EmptyAcc
  /\ before = EmptyAcc
  /\ text = <<>>
  /\ total = 0
  /\ used = 0
  /\ seen = <<>>
  /\ ingested = <<>>
  /\ stderr = <<>>
  /\ out_file = NoFile
  /\ blocks \in SeqsUpTo(OrderTexts, MaxBlocks)
  /\ pending = DOMAIN blocks

\* parse_text(blocks[i]) for a block not ingested yet
IngestBlock(i) ==
  /\ pc = "order"
  /\ i \in pending
  /\ before' = popular_words
  /\ text' = blocks[i]
  /\ total' = total_of(split(blocks[i]))
  /\ popular_words' = parse_text(popular_words, options, blocks[i])
  /\ pending' = pending \ {i}
  /\ UNCHANGED <<options, pc, used, seen, ingested, stderr, out_file, blocks>>

NextOrder == \E i \in DOMAIN blocks : IngestBlock(i)

SpecOrder == InitOrder /\ [][NextOrder]_vars

(***************************************************************************)
(* Properties of parse_text.  They read the text and the accumulator       *)
(* before and after the call, and count tokens on the text itself.         *)
(***************************************************************************)
\* the number of whitespace-separated tokens of t, counted where they start
NumTokens(t) ==
  Cardinality({i \in DOMAIN t :
                 t[i] \notin Whitespace /\ (i = 1 \/ t[i - 1] \in Whitespace)})

\* the words of the block: its tokens, normalized, in order
BlockWords(t) == LET toks == split(t) IN [i \in DOMAIN toks |-> normalize(toks[i])]

\* the local count of w in the words ws of a block
LocalCount(ws, w) == Cardinality({i \in DOMAIN ws : ws[i] = w})

\* the non-common words among the words ws of a block
BlockKeys(ws) == {ws[i] : i \in DOMAIN ws} \ (common_words \cup {<<>>})

\* what the last call added to the entry of w
Delta(w) == Get(popular_words, w) - Get(before, w)

\* c / tot > max_threshold
OverThreshold(c, tot) ==
  c * options.max_threshold[2] > options.max_threshold[1] * tot

\* C1 (as amended): a non-common word W with local count c in a block of
\* total tokens is left out of the block's contribution iff
\* c / total > max_threshold, and is included when c / total = max_threshold,
\* whatever happens to the other words of the block.  With common words
\* {the, a}, "test test the a" ingested into the empty accumulator leaves
\* test -> 2 at max_threshold 0.5 and nothing at 0.49, and the block "test"
\* (ratio 1/1) contributes nothing at either threshold.
AntiSpamThreshold ==
  pc = "called" =>
    LET ws == BlockWords(text)
        n  == NumTokens(text)
    IN  /\ \A w \in BlockKeys(ws) :
             (Delta(w) = 0) <=> OverThreshold(LocalCount(ws, w), n)
        /\ (text = Example1 /\ before = EmptyAcc /\ options.count_word_freqs) =>
             /\ options.max_threshold = <<1, 2>> => popular_words = (w_test :> 2)
             /\ options.max_threshold = <<49, 100>> => popular_words = EmptyAcc
        /\ (text = Example2 /\ options.max_threshold \in {<<1, 2>>, <<49, 100>>}) =>
             popular_words = before

\* C1 witness: one block in which a word over the threshold is rejected and
\* another word is accepted.
AntiSpamWitness ==
  /\ pc = "called"
  /\ options.max_threshold = <<1, 2>>
  /\ LET ws == BlockWords(text)
     IN  \E w1, w2 \in BlockKeys(ws) :
           /\ Delta(w1) = 0
           /\ 2 * LocalCount(ws, w1) > NumTokens(text)
           /\ Delta(w2) > 0

\* C1 as stated: the rule, and the final count of "test" after the blocks
\* "test test the a", "test" is 3 at max_threshold 0.5 and 1 at 0.49.
AntiSpamOriginal ==
  pc = "called" =>
    LET ws == BlockWords(text)
        n  == NumTokens(text)
    IN  /\ \A w \in BlockKeys(ws) :
             (Delta(w) = 0) <=> OverThreshold(LocalCount(ws, w), n)
        /\ (text = Example2 /\ options.count_word_freqs
              /\ options.max_threshold = <<1, 2>> /\ before = (w_test :> 2)) =>
             Get(popular_words, w_test) = 3
        /\ (text = Example2 /\ options.count_word_freqs
              /\ options.max_threshold = <<49, 100>> /\ before = EmptyAcc) =>
             Get(popular_words, w_test) = 1

\* C2: no common word is ever a key of the accumulator, however often it
\* occurs in the blocks ingested and whatever the options are.
NoCommonWordCounted ==
  /\ \A w \in DOMAIN popular_words : w \notin common_words /\ popular_words[w] > 0
  /\ \A w \in common_words : Get(popular_words, w) = 0

\* C2 witness: a block in which a common word occurs twice was ingested and
\* left another word in the accumulator.
NoCommonWordWitness ==
  /\ pc = "called"
  /\ LET ws == BlockWords(text)
     IN  /\ \E w \in common_words : LocalCount(ws, w) >= 2
         /\ \E w \in BlockKeys(ws) : Delta(w) > 0

\* C5: with count_word_freqs false a call adds exactly 1 to the entry of each
\* word it accepts, whatever the word's local count; with count_word_freqs
\* true it adds the local count; the entries of all other words stay as they
\* were.
OnlyOnceMode ==
  pc = "called" =>
    LET ws == BlockWords(text)
    IN  \A w \in DOMAIN popular_words \cup DOMAIN before \cup BlockKeys(ws) :
          \/ Delta(w) = 0
          \/ /\ w \in BlockKeys(ws)
             /\ Delta(w) = IF options.count_word_freqs THEN LocalCount(ws, w) ELSE 1

\* C5 witness: in only-once mode a word repeated in the block gained 1 and
\* an entry of a word absent from the block was kept.
OnlyOnceWitness ==
  /\ pc = "called"
  /\ ~options.count_word_freqs
  /\ LET ws == BlockWords(text)
     IN  /\ \E w \in BlockKeys(ws) : LocalCount(ws, w) >= 2 /\ Delta(w) = 1
         /\ \E w \in DOMAIN before :
              w \notin BlockKeys(ws) /\ popular_words[w] = before[w]

\* the tokens toks are non-common, already-normalized words, none of which
\* has a share of the tokens above max_threshold
CleanBlock(toks) ==
  /\ toks # <<>>
  /\ \A i \in DOMAIN toks :
       /\ toks[i] = normalize(toks[i])
       /\ toks[i] \notin common_words
       /\ ~OverThreshold(LocalCount(toks, toks[i]), Len(toks))

\* C6: a block of non-common, already-normalized words whose shares are at
\* most max_threshold, ingested into the empty accumulator with
\* count_word_freqs true, leaves exactly its word -> occurrence-count table.
ExactCounting ==
  (pc = "called" /\ before = EmptyAcc /\ options.count_word_freqs) =>
    LET toks == split(text)
    IN  CleanBlock(toks) =>
          /\ DOMAIN popular_words = {toks[i] : i \in DOMAIN toks}
          /\ \A w \in DOMAIN popular_words : popular_words[w] = LocalCount(toks, w)

\* C6 witness: a clean block of two distinct words, one of them repeated and
\* below the threshold, was ingested into the empty accumulator.
ExactCountingWitness ==
  /\ pc = "called" /\ before = EmptyAcc /\ options.count_word_freqs
  /\ CleanBlock(split(text))
  /\ Cardinality(DOMAIN popular_words) = 2
  /\ \E w \in DOMAIN popular_words :
       popular_words[w] = 2 /\ ~OverThreshold(popular_words[w] + 1, Len(split(text)))

\* the number of tokens among ws that are not empty after normalization
NonEmptyTokens(ws) == Cardinality({i \in DOMAIN ws : ws[i] # <<>>})

\* C7 (as amended): total is the number of whitespace-separated tokens of
\* the block, whatever they normalize to: common words and tokens that
\* normalize to the empty string are both counted, and a word is accepted
\* iff its local count over that total is at most max_threshold.
SpamRatioDenominator ==
  pc = "called" =>
    LET ws == BlockWords(text)
        n  == NumTokens(text)
    IN  /\ total = n
        /\ \A w \in BlockKeys(ws) :
             (Delta(w) > 0) <=> ~OverThreshold(LocalCount(ws, w), n)

\* C7 witness: a block with a common word and a punctuation-only token in
\* which a word is accepted that would be over the threshold if only the
\* non-empty tokens were counted.
SpamRatioWitness ==
  /\ pc = "called"
  /\ LET ws == BlockWords(text)
     IN  /\ \E i \in DOMAIN ws : ws[i] = <<>>
         /\ \E i \in DOMAIN ws : ws[i] \in common_words
         /\ \E w \in BlockKeys(ws) :
              /\ Delta(w) > 0
              /\ OverThreshold(LocalCount(ws, w), NonEmptyTokens(ws))

\* C7 as stated: total counts only the tokens that are non-empty after
\* normalization, so punctuation-only tokens never change which words are
\* accepted.
SpamRatioOriginal ==
  pc = "called" =>
    LET ws == BlockWords(text)
        n  == NonEmptyTokens(ws)
    IN  /\ total = n
        /\ \A w \in BlockKeys(ws) :
             (Delta(w) > 0) <=> ~OverThreshold(LocalCount(ws, w), n)

(***************************************************************************)
(* Properties of the traversals and of the output loop.                    *)
(***************************************************************************)
\* the text blocks of a submission: comment bodies, title, selftext
FullTexts(s) ==
  [i \in 1..(Len(s.comments) + 1 + IF s.is_self THEN 1 ELSE 0) |->
     IF i <= Len(s.comments) THEN s.comments[i]
     ELSE IF i = Len(s.comments) + 1 THEN s.title
     ELSE s.selftext]

\* the text blocks of a submission without its comment tree
OwnTexts(s) == IF s.is_self THEN <<s.title, s.selftext>> ELSE <<s.title>>

Failed(s) == s.http_error # 0

Succeeded(s) == s.http_error = 0

IsSkipLine(line) == line[1] = "Skipping submission"

RECURSIVE TextsOf(_)
TextsOf(items) ==
  IF items = <<>> THEN <<>> ELSE FullTexts(Head(items)) \o TextsOf(Tail(items))

\* C3: in process_subreddit the accumulator is the one the traversal of the
\* same sequence without the submissions whose comment fetch raised would
\* build (a failed submission adds nothing, every other one all its blocks),
\* and the skip diagnostics are exactly one per failed submission, each
\* naming it, in order.
TraversalResilience ==
  options.is_subreddit =>
    /\ popular_words = parse_all(EmptyAcc, options, TextsOf(SelectSeq(seen, Succeeded)))
    /\ LET skips  == SelectSeq(stderr, IsSkipLine)
           failed == SelectSeq(seen, Failed)
       IN  /\ Len(skips) = Len(failed)
           /\ \A i \in DOMAIN skips :
                skips[i] = <<"Skipping submission", failed[i].url, failed[i].http_error>>

\* C3 witness: three submissions were traversed, the comment fetch of the
\* second raised, the first and the third left words, one skip line names
\* the second, and the run wrote its output.
TraversalResilienceWitness ==
  /\ options.is_subreddit
  /\ pc = "done"
  /\ Len(seen) = 3
  /\ Succeeded(seen[1]) /\ Failed(seen[2]) /\ Succeeded(seen[3])
  /\ seen[2].comments # <<>> /\ seen[2].is_self
  /\ SelectSeq(stderr, IsSkipLine) = << <<"Skipping submission", 2, 503>> >>
  /\ popular_words # EmptyAcc
  /\ popular_words = parse_all(EmptyAcc, options, FullTexts(seen[1]) \o FullTexts(seen[3]))

\* the words written to the output file
EmittedWords == LET toks == split(out_file.content) IN {toks[i] : i \in DOMAIN toks}

HasExcludedPhrase(w) ==
  \E i, j \in DOMAIN w :
    SubSeq(w, i, j) \in { <<"/">>, <<"-", "-">>, <<".", ".", ".">>,
                          <<"d", "e", "l", "e", "t", "e", "d">>, <<")", "x">> }

ParsesAsInteger(w) == w # <<>> /\ \A i \in DOMAIN w : w[i] \in Digits

\* C4: the output loop emits a word of the accumulator iff its count is
\* above 2, it contains none of the excluded phrases, and it does not parse
\* as an integer; it emits nothing else.
OutputFilter ==
  pc = "done" =>
    /\ EmittedWords \subseteq DOMAIN popular_words
    /\ \A w \in DOMAIN popular_words :
         w \in EmittedWords <=>
           /\ popular_words[w] > 2
           /\ ~HasExcludedPhrase(w)
           /\ ~ParsesAsInteger(w)

\* C4 witness: a final accumulator with a number and a word with an excluded
\* phrase counted more than twice, a clean word counted at most twice, and a
\* clean word that was emitted.
OutputFilterWitness ==
  /\ pc = "done"
  /\ \E w \in DOMAIN popular_words : ParsesAsInteger(w) /\ popular_words[w] > 2
  /\ \E w \in DOMAIN popular_words : HasExcludedPhrase(w) /\ popular_words[w] > 2
  /\ \E w \in DOMAIN popular_words :
       ~HasExcludedPhrase(w) /\ ~ParsesAsInteger(w) /\ popular_words[w] <= 2
  /\ EmittedWords # {}

IsListingTraceback(line) ==
  line \in { <<"Traceback", "get_top", "HTTPError">>,
             <<"Traceback", "get_overview", "HTTPError">> }

\* C8 (as amended): an HTTP error raised while process_submission runs for a
\* submission of process_subreddit is reported and skipped, the traversal
\* goes on, and a run that ends normally has written the output file.  An
\* HTTP error raised by a listing (get_top, get_overview) while the loop
\* asks for the next item is caught nowhere, in user traversal as in
\* subreddit traversal: the run ends there and writes no output file.
TransientFailureHandling ==
  /\ pc = "crashed" =>
       /\ stderr # <<>> /\ IsListingTraceback(stderr[Len(stderr)])
       /\ ~out_file.exists
  /\ pc = "done" => out_file.exists
  /\ options.is_subreddit =>
       \A i \in DOMAIN seen :
         Failed(seen[i]) =>
           \E k \in DOMAIN stderr :
             stderr[k] = <<"Skipping submission", i, seen[i].http_error>>

\* C8 witness: a subreddit run in which the first submission failed, two
\* more were traversed after it, and the output file was written.
TransientFailureWitness ==
  /\ options.is_subreddit
  /\ pc = "done"
  /\ Len(seen) = 3
  /\ Failed(seen[1])
  /\ out_file.exists /\ out_file.content # <<>>

\* C8 as stated: no HTTP error ends the run, in subreddit traversal and in
\* user traversal alike.
TransientFailureOriginal == pc # "crashed"

\* the parse_text arguments the items call for, item by item
RECURSIVE ExpectedCalls(_, _)
ExpectedCalls(items, is_subreddit) ==
  IF items = <<>> THEN <<>>
  ELSE LET s == Head(items)
       IN  (IF is_subreddit
            THEN (IF Failed(s) THEN <<>> ELSE FullTexts(s))
            ELSE (IF s.kind = "Comment" THEN <<s.body>> ELSE OwnTexts(s)))
           \o ExpectedCalls(Tail(items), is_subreddit)

\* C10: the parse_text calls of the run are, item by item and in order: for
\* a submission of process_subreddit the bodies of its comment tree, then
\* its title, then its selftext if it is a self post; for an entry of
\* process_redditor its body if it is a comment, else its title and its
\* selftext if it is a self post, and never a body of its comment tree.
IngestSequence == ingested = ExpectedCalls(seen, options.is_subreddit)

\* C10 witness: a user run met a self post with a comment tree and a comment
\* of the user: the post gave its title and selftext, the comment its body.
IngestSequenceWitness ==
  /\ ~options.is_subreddit
  /\ Len(seen) = 2
  /\ seen[1].kind = "Submission" /\ seen[1].is_self /\ seen[1].comments # <<>>
  /\ seen[2].kind = "Comment"
  /\ ingested = <<seen[1].title, seen[1].selftext, seen[2].body>>

(***************************************************************************)
(* Order independence.                                                     *)
(***************************************************************************)
\* what block i adds to w when it is ingested alone into the empty accumulator
Alone(i, w) == Get(parse_text(EmptyAcc, options, blocks[i]), w)

RECURSIVE SumAlone(_, _)
SumAlone(I, w) ==
  IF I = {} THEN 0
  ELSE LET i == CHOOSE x \in I : TRUE IN Alone(i, w) + SumAlone(I \ {i}, w)

\* C9: whatever the order in which the blocks are ingested, the accumulator
\* is the per-word sum of what each ingested block adds when it is ingested
\* alone into the empty accumulator; the last call added what its block adds
\* alone.
OrderIndependence ==
  pc = "order" =>
    LET done == DOMAIN blocks \ pending
        keys == UNION {DOMAIN parse_text(EmptyAcc, options, blocks[i]) : i \in done}
    IN  /\ DOMAIN popular_words = keys
        /\ \A w \in keys : popular_words[w] = SumAlone(done, w)
        /\ text # <<>> =>
             \A w \in keys :
               Delta(w) = Get(parse_text(EmptyAcc, options, text), w)

\* C9 witness: three different blocks were all ingested, the first of the
\* sequence last, and a word rejected in one block was counted from another.
OrderIndependenceWitness ==
  /\ pc = "order"
  /\ pending = {}
  /\ Len(blocks) = 3
  /\ Cardinality({blocks[i] : i \in DOMAIN blocks}) = 3
  /\ text = blocks[1]
  /\ \E i, j \in DOMAIN blocks :
       /\ Alone(i, w_test) = 0
       /\ Alone(j, w_test) > 0
       /\ Get(popular_words, w_test) > 0

====
